---- MODULE Spec2Model ----
(***************************************************************************)
(* TamperGuide: the step-transition controller of one driver instance      *)
(* (src/tamperguide/tamperGuide.js, function tamperGuide and the managers  *)
(* it owns).  One action per public method, input event, timer firing and  *)
(* animation frame.                                                        *)
(*                                                                         *)
(* Encoding of JavaScript values:                                          *)
(*   a step object is its identity, a number of RawSteps; 0 is undefined   *)
(*   a DOM element is a number; 0 is undefined/null                        *)
(*   activeIndex undefined is NoIndex                                      *)
(*   a hook's return value is one of HookRet ("throw" = the hook threw)    *)
(***************************************************************************)
EXTENDS Integers, Sequences, FiniteSets, TLC

\* ---------------------------------------------------------------- bounds
MaxSteps == 3        \* longest step list handed to the driver
MaxTimers == 2       \* most setTimeout callbacks pending at once
MaxAttached == 2     \* most keydown/resize/click listener sets on the page
MaxChain == 4        \* longest ancestor chain of a target element
MaxExtent == 4       \* largest viewport width and height, in layout units

\* ------------------------------------------------------- value encodings
Undefined == 0
NoIndex == 0 - 1
DummyEl == 9         \* the 'tg-dummy-element' placeholder anchor
PageFocus == 8       \* document.activeElement when init() runs

\* ------------------------------------------------------------ step pool
\* Step objects 1, 2, 3, ... pass validateStep and cycle through three
\* shapes; BadStep has neither element nor popover.
BadStep == 90
ValidSteps == 1..MaxSteps
RawSteps == ValidSteps \cup {BadStep}

StepElement(s) ==
  IF s = BadStep THEN "none"
  ELSE CASE s % 3 = 1 -> "none"      \* { popover: {...} }
         [] s % 3 = 2 -> "found"     \* { element: '#btn', popover: {...}, hooks }
         [] OTHER -> "missing"       \* { element: '#nope' }

StepHasPopover(s) == s # BadStep /\ s % 3 \in {1, 2}

\* hooks defined on the step itself (popover-level ones on step.popover)
StepHooks(s) ==
  IF s # BadStep /\ s % 3 = 2
  THEN {"onDeselected", "onHighlightStarted", "onHighlighted",
        "onNextClick", "onPrevClick", "onCloseClick"}
  ELSE {}

GlobalHooks == {"onDeselected", "onHighlightStarted", "onHighlighted",
                "onNextClick", "onPrevClick", "onCloseClick",
                "onDestroyStarted", "onDestroyed"}

HookConfigs == { {}, GlobalHooks }

HookRet == {"false", "undefined", "true", "throw"}

\* the step lists handed to the driver: <<>>, <<1>>, <<1, 2>>, ...
StepLists == { [k \in 1..n |-> k] : n \in 0..MaxSteps }

\* ------------------------------------------------------------ validation
ValidateStep(s) ==
  /\ s \in RawSteps
  /\ (StepElement(s) # "none" \/ StepHasPopover(s))

ValidateSteps(list) == \A k \in 1..Len(list) : ValidateStep(list[k])

\* ---------------------------------------------------------- state manager
initialState ==
  [ isInitialized |-> FALSE,
    activeIndex |-> NoIndex,
    activeElement |-> Undefined,
    activeStep |-> Undefined,
    previousElement |-> Undefined,
    previousStep |-> Undefined,
    transitionInProgress |-> FALSE,
    focusedBeforeActivation |-> Undefined ]

DEFAULT_CONFIG ==
  [ steps |-> <<>>, animate |-> TRUE, allowClose |-> TRUE,
    allowKeyboardControl |-> TRUE, hooks |-> {} ]

\* DOM and manager-private state of one instance
initialDom ==
  [ overlayEl |-> FALSE,        \* overlayManager.overlayEl exists
    clickHandler |-> FALSE,     \* overlayManager.clickHandler set
    popoverEl |-> FALSE,        \* popoverManager.popoverEl exists
    currentStep |-> Undefined,  \* popoverManager.currentStep
    currentTarget |-> Undefined,
    modal |-> FALSE,            \* popover centred in the viewport, arrow hidden
    svgHole |-> Undefined,      \* element the scrim's cutout surrounds, if any
    raf |-> FALSE,              \* an animation-frame callback is pending
    dummyElement |-> FALSE,     \* highlightManager.dummyElement in document
    nodes |-> [overlay |-> 0, popover |-> 0, dummy |-> 0],
                                \* nodes of this instance in the document
    hmActive |-> Undefined,     \* highlightManager.activeElement
    bodyActive |-> FALSE,       \* body.classList has 'tg-active'
    owned |-> FALSE,            \* eventsManager / clickRouter non-null
    attached |-> 0,             \* listener sets attached to document/window
    emitterN |-> 0 ]            \* handler sets registered on the emitter

VARIABLES st, cfg, timers, dom,
          geo      \* the layout computation last made (layout actions only)

vars == <<st, cfg, timers, dom, geo>>

\* no layout computation recorded
NoGeo == [ kind |-> "none" ]

\* the machine an operation runs on; fired/err are the operation's trace
Cur == [ st |-> st, cfg |-> cfg, timers |-> timers, dom |-> dom,
         fired |-> <<>>, err |-> "none" ]

\* ------------------------------------------------------ internal helpers
Throw(m, code) == [m EXCEPT !.err = code]

\* mutant: the global hook is preferred to the step's
HookLevel_globalFirst(step, name, c) ==
  IF name \in c.hooks THEN "global"
  ELSE IF step # Undefined /\ name \in StepHooks(step) THEN "step"
  ELSE "none"

\* which function a hook lookup `step.h || config.h` yields
HookLevel(step, name, c) ==
  IF step # Undefined /\ name \in StepHooks(step) THEN "step"
  ELSE IF name \in c.hooks THEN "global"
  ELSE "none"

\* record one hook invocation together with the state the hook observes
Fire(m, name, level, step, el, ret) ==
  [m EXCEPT !.fired = Append(@, [ hook |-> name, level |-> level, step |-> step,
                                  el |-> el, idx |-> m.st.activeIndex,
                                  active |-> m.st.isInitialized, ret |-> ret,
                                  busy |-> m.st.transitionInProgress,
                                  dom |-> m.dom ])]

\* focusedBefore.focus(): recorded in the operation's trace like a hook call
RestoreFocus(m, focusedBefore) ==
  IF focusedBefore = Undefined THEN m
  ELSE Fire(m, "focus", "page", Undefined, focusedBefore, "undefined")

\* ret is what the hook returns (or "throw"); ungated hooks' results are unused
FireIfSet(m, name, level, step, el, ret) ==
  IF level = "none" THEN m ELSE Fire(m, name, level, step, el, ret)

\* mutant: a hook that throws counts as a cancellation
safeHook_throwCancels(level, r) ==
  IF level = "none" THEN "undefined"
  ELSE IF r = "throw" THEN "false"
  ELSE r

\* safeHook: the hook's return value, undefined when it throws or is unset
safeHook(level, r) ==
  IF level = "none" THEN "undefined"
  ELSE IF r = "throw" THEN "undefined"
  ELSE r

resolveElement(step) ==
  IF step # Undefined /\ StepElement(step) = "found" THEN step ELSE Undefined

\* highlightManager.highlight: returns the element or the placeholder anchor
HighlightTarget(element) == IF element # Undefined THEN element ELSE DummyEl

\* highlightManager.getOrCreateDummy(): the placeholder anchor is reused
getOrCreateDummy(m) ==
  IF m.dom.dummyElement THEN m
  ELSE [m EXCEPT !.dom.dummyElement = TRUE, !.dom.nodes.dummy = @ + 1]

HmHighlight(m, element) ==
  [(IF element = Undefined THEN getOrCreateDummy(m) ELSE m)
     EXCEPT !.dom.hmActive = HighlightTarget(element),
            !.dom.raf = TRUE]

\* overlayManager.create(): one scrim node, drawn without a cutout
overlayCreate(m) ==
  IF m.dom.overlayEl THEN m
  ELSE [m EXCEPT !.dom.overlayEl = TRUE,
                 !.dom.nodes.overlay = @ + 1,
                 !.dom.svgHole = Undefined]

\* overlayManager.updateHighlight(rect), rect = Undefined for "no cutout"
updateHighlight(m, rect) ==
  [(IF m.dom.overlayEl THEN m ELSE overlayCreate(m)) EXCEPT !.dom.svgHole = rect]

\* mutant: the placeholder anchor gets a cutout like any other element
refresh_dummyCutout(m) ==
  IF m.dom.hmActive = Undefined THEN m
  ELSE updateHighlight(m, m.dom.hmActive)

\* highlightManager.refresh(): redraws the scrim for the active anchor
refresh(m) ==
  IF m.dom.hmActive = Undefined THEN m
  ELSE IF m.dom.hmActive = DummyEl THEN updateHighlight(m, Undefined)
  ELSE updateHighlight(m, m.dom.hmActive)

\* the requestAnimationFrame callback of highlightManager.highlight
RafCallback(m) == refresh([m EXCEPT !.dom.raf = FALSE])

\* popoverManager.reposition: modal mode only without a target element
reposition(m, targetElement) ==
  IF ~m.dom.popoverEl THEN m
  ELSE [m EXCEPT !.dom.modal = (targetElement = Undefined)]

\* mutant: a popover node is appended at every render
popoverCreate_noGuard(m) ==
  [m EXCEPT !.dom.popoverEl = TRUE, !.dom.nodes.popover = @ + 1]

\* popoverManager.create(): one popover node
popoverCreate(m) ==
  IF m.dom.popoverEl THEN m
  ELSE [m EXCEPT !.dom.popoverEl = TRUE, !.dom.nodes.popover = @ + 1]

PopoverRender(m, step, target) ==
  reposition([popoverCreate(m) EXCEPT !.dom.currentStep = step,
                                      !.dom.currentTarget = target], target)

SettleDelay(c) == IF c.animate THEN 300 ELSE 50

\* init(): idempotent; a second run on a reset state leaks the old listeners
init(m) ==
  IF m.st.isInitialized THEN m
  ELSE [overlayCreate(m) EXCEPT
                 !.dom.bodyActive = TRUE,
                 !.st.focusedBeforeActivation = PageFocus,
                 !.dom.owned = TRUE,
                 !.dom.attached = @ + 1,
                 !.dom.clickHandler = TRUE,
                 !.dom.emitterN = @ + 1,
                 !.st.isInitialized = TRUE]

\* highlightStep once its checks passed: hooks, state update, deferred render
startTransition(m, stepIndex) ==
  LET step == m.cfg.steps[stepIndex + 1]
      previousStep == m.st.activeStep
      previousElement == m.st.activeElement
      m1 == [m EXCEPT !.st.transitionInProgress = TRUE]
      m2 == IF previousStep # Undefined /\ previousElement # Undefined
            THEN FireIfSet(m1, "onDeselected",
                           HookLevel(previousStep, "onDeselected", m1.cfg),
                           previousStep, previousElement, "undefined")
            ELSE m1
      element == resolveElement(step)
      m3 == FireIfSet(m2, "onHighlightStarted",
                      HookLevel(step, "onHighlightStarted", m2.cfg), step, element,
                      "undefined")
      m4 == [m3 EXCEPT !.st.previousStep = previousStep,
                       !.st.previousElement = previousElement,
                       !.st.activeStep = step,
                       !.st.activeIndex = stepIndex]
      m5 == HmHighlight(m4, element)
      m6 == [m5 EXCEPT !.st.activeElement = HighlightTarget(element)]
  IN [m6 EXCEPT !.timers = Append(@, [ kind |-> "step", step |-> step,
                                       el |-> HighlightTarget(element),
                                       delay |-> SettleDelay(m6.cfg) ])]

\* mutant: the index range is checked before the empty step list
highlightStep_indexFirst(m, stepIndex) ==
  LET steps == m.cfg.steps IN
  IF stepIndex < 0 \/ stepIndex >= Len(steps) THEN Throw(m, "INVALID_STEP_INDEX")
  ELSE IF Len(steps) = 0 THEN Throw(m, "NO_STEPS")
  ELSE IF m.st.transitionInProgress THEN m
  ELSE startTransition(m, stepIndex)

highlightStep(m, stepIndex) ==
  LET steps == m.cfg.steps IN
  IF Len(steps) = 0 THEN Throw(m, "NO_STEPS")
  ELSE IF stepIndex < 0 \/ stepIndex >= Len(steps) THEN Throw(m, "INVALID_STEP_INDEX")
  ELSE IF m.st.transitionInProgress THEN m
  ELSE startTransition(m, stepIndex)

\* mutant: the transition flag is cleared before onHighlighted is called
StepTimerCallback_clearsFirst(m, t) ==
  IF ~m.st.isInitialized THEN m
  ELSE
    LET m1 == IF StepHasPopover(t.step) THEN PopoverRender(m, t.step, t.el) ELSE m
        m2 == [m1 EXCEPT !.st.transitionInProgress = FALSE]
    IN FireIfSet(m2, "onHighlighted",
                 HookLevel(t.step, "onHighlighted", m2.cfg), t.step, t.el,
                 "undefined")

\* the setTimeout callback of highlightStep
StepTimerCallback(m, t) ==
  IF ~m.st.isInitialized THEN m
  ELSE
    LET m1 == IF StepHasPopover(t.step) THEN PopoverRender(m, t.step, t.el) ELSE m
        m2 == FireIfSet(m1, "onHighlighted",
                        HookLevel(t.step, "onHighlighted", m1.cfg), t.step, t.el,
                        "undefined")
    IN [m2 EXCEPT !.st.transitionInProgress = FALSE]

\* the setTimeout callback of highlight()
HighlightTimerCallback(m, t) ==
  IF ~m.st.isInitialized THEN m
  ELSE IF StepHasPopover(t.step) THEN PopoverRender(m, t.step, t.el) ELSE m

\* the silent part of the teardown: DOM removal, listener detachment,
\* event-bus clearing
removeDom(m) ==
  [m EXCEPT !.dom.bodyActive = FALSE,
            !.dom.popoverEl = FALSE,
            !.dom.currentStep = Undefined,
            !.dom.currentTarget = Undefined,
            !.dom.modal = FALSE,
            !.dom.svgHole = Undefined,
            !.dom.nodes = [ overlay |-> IF m.dom.overlayEl THEN @.overlay - 1 ELSE @.overlay,
                            popover |-> IF m.dom.popoverEl THEN @.popover - 1 ELSE @.popover,
                            dummy |-> IF m.dom.dummyElement THEN @.dummy - 1 ELSE @.dummy ],
            !.dom.dummyElement = FALSE,
            !.dom.hmActive = Undefined,
            !.dom.overlayEl = FALSE,
            !.dom.attached = IF m.dom.owned THEN @ - 1 ELSE @,
            !.dom.owned = FALSE,
            !.dom.clickHandler = FALSE,
            !.dom.emitterN = 0]

\* mutant: onDestroyed is fired before the state is reset
performDestroy_destroyedBeforeReset(m, withDestroyStartedHook, o) ==
  LET activeElement == m.st.activeElement
      activeStep == m.st.activeStep
      focusedBefore == m.st.focusedBeforeActivation
      dsLevel == IF withDestroyStartedHook /\ "onDestroyStarted" \in m.cfg.hooks
                 THEN "global" ELSE "none"
      m1 == FireIfSet(m, "onDestroyStarted", dsLevel, activeStep, activeElement,
                      o.destroy)
  IN
  IF dsLevel # "none" /\ safeHook(dsLevel, o.destroy) = "false" THEN m1
  ELSE
    LET m2 == IF activeStep # Undefined
              THEN FireIfSet(m1, "onDeselected",
                             HookLevel(activeStep, "onDeselected", m1.cfg),
                             activeStep, activeElement, "undefined")
              ELSE m1
        m3 == removeDom(m2)
        m4 == IF activeStep # Undefined
              THEN FireIfSet(m3, "onDestroyed",
                             IF "onDestroyed" \in m3.cfg.hooks THEN "global" ELSE "none",
                             activeStep, activeElement, "undefined")
              ELSE m3
    IN RestoreFocus([m4 EXCEPT !.st = initialState], focusedBefore)

\* mutant: the reset leaves __transitionInProgress as it was
performDestroy_keepsFlag(m, withDestroyStartedHook, o) ==
  LET activeElement == m.st.activeElement
      activeStep == m.st.activeStep
      focusedBefore == m.st.focusedBeforeActivation
      dsLevel == IF withDestroyStartedHook /\ "onDestroyStarted" \in m.cfg.hooks
                 THEN "global" ELSE "none"
      m1 == FireIfSet(m, "onDestroyStarted", dsLevel, activeStep, activeElement,
                      o.destroy)
  IN
  IF dsLevel # "none" /\ safeHook(dsLevel, o.destroy) = "false" THEN m1
  ELSE
    LET m2 == IF activeStep # Undefined
              THEN FireIfSet(m1, "onDeselected",
                             HookLevel(activeStep, "onDeselected", m1.cfg),
                             activeStep, activeElement, "undefined")
              ELSE m1
        m3 == [removeDom(m2) EXCEPT
                 !.st = [initialState EXCEPT
                           !.transitionInProgress = m2.st.transitionInProgress]]
        m4 == IF activeStep # Undefined
              THEN FireIfSet(m3, "onDestroyed",
                             IF "onDestroyed" \in m3.cfg.hooks THEN "global" ELSE "none",
                             activeStep, activeElement, "undefined")
              ELSE m3
    IN RestoreFocus(m4, focusedBefore)

performDestroy(m, withDestroyStartedHook, o) ==
  LET activeElement == m.st.activeElement
      activeStep == m.st.activeStep
      focusedBefore == m.st.focusedBeforeActivation
      dsLevel == IF withDestroyStartedHook /\ "onDestroyStarted" \in m.cfg.hooks
                 THEN "global" ELSE "none"
      m1 == FireIfSet(m, "onDestroyStarted", dsLevel, activeStep, activeElement,
                      o.destroy)
  IN
  IF dsLevel # "none" /\ safeHook(dsLevel, o.destroy) = "false" THEN m1
  ELSE
    LET m2 == IF activeStep # Undefined
              THEN FireIfSet(m1, "onDeselected",
                             HookLevel(activeStep, "onDeselected", m1.cfg),
                             activeStep, activeElement, "undefined")
              ELSE m1
        m3 == [removeDom(m2) EXCEPT !.st = initialState]
        m4 == IF activeStep # Undefined
              THEN FireIfSet(m3, "onDestroyed",
                             IF "onDestroyed" \in m3.cfg.hooks THEN "global" ELSE "none",
                             activeStep, activeElement, "undefined")
              ELSE m3
    IN RestoreFocus(m4, focusedBefore)

\* mutant: the last step is told by `currentIndex < steps.length`
handleNext_offByOne(m, o) ==
  IF m.st.transitionInProgress THEN m
  ELSE
    LET currentIndex == m.st.activeIndex
        steps == m.cfg.steps
        activeStep == m.st.activeStep
        level == HookLevel(activeStep, "onNextClick", m.cfg)
        m1 == FireIfSet(m, "onNextClick", level, activeStep, m.st.activeElement, o.next)
    IN IF level # "none" /\ safeHook(level, o.next) = "false" THEN m1
       ELSE IF currentIndex # NoIndex /\ currentIndex < Len(steps)
            THEN highlightStep(m1, currentIndex + 1)
            ELSE performDestroy(m1, FALSE, o)

\* mutant: the result of onNextClick is not looked at
handleNext_ignoresCancel(m, o) ==
  IF m.st.transitionInProgress THEN m
  ELSE
    LET currentIndex == m.st.activeIndex
        steps == m.cfg.steps
        activeStep == m.st.activeStep
        level == HookLevel(activeStep, "onNextClick", m.cfg)
        m1 == FireIfSet(m, "onNextClick", level, activeStep, m.st.activeElement, o.next)
    IN IF currentIndex # NoIndex /\ currentIndex < Len(steps) - 1
       THEN highlightStep(m1, currentIndex + 1)
       ELSE performDestroy(m1, FALSE, o)

\* mutant: the end of the tour closes it the way a close request does
handleNext_endAsksHook(m, o) ==
  IF m.st.transitionInProgress THEN m
  ELSE
    LET currentIndex == m.st.activeIndex
        steps == m.cfg.steps
        activeStep == m.st.activeStep
        level == HookLevel(activeStep, "onNextClick", m.cfg)
        m1 == FireIfSet(m, "onNextClick", level, activeStep, m.st.activeElement, o.next)
    IN IF level # "none" /\ safeHook(level, o.next) = "false" THEN m1
       ELSE IF currentIndex # NoIndex /\ currentIndex < Len(steps) - 1
            THEN highlightStep(m1, currentIndex + 1)
            ELSE performDestroy(m1, TRUE, o)

handleNext(m, o) ==
  IF m.st.transitionInProgress THEN m
  ELSE
    LET currentIndex == m.st.activeIndex
        steps == m.cfg.steps
        activeStep == m.st.activeStep
        level == HookLevel(activeStep, "onNextClick", m.cfg)
        m1 == FireIfSet(m, "onNextClick", level, activeStep, m.st.activeElement, o.next)
    IN IF level # "none" /\ safeHook(level, o.next) = "false" THEN m1
       ELSE IF currentIndex # NoIndex /\ currentIndex < Len(steps) - 1
            THEN highlightStep(m1, currentIndex + 1)
            ELSE performDestroy(m1, FALSE, o)

\* mutant: stepping before the first step tears the tour down, as the end does
handlePrev_destroysAtStart(m, o) ==
  IF m.st.transitionInProgress THEN m
  ELSE
    LET currentIndex == m.st.activeIndex
        activeStep == m.st.activeStep
        level == HookLevel(activeStep, "onPrevClick", m.cfg)
        m1 == FireIfSet(m, "onPrevClick", level, activeStep, m.st.activeElement, o.prev)
    IN IF level # "none" /\ safeHook(level, o.prev) = "false" THEN m1
       ELSE IF currentIndex # NoIndex /\ currentIndex > 0
            THEN highlightStep(m1, currentIndex - 1)
            ELSE performDestroy(m1, FALSE, o)

handlePrev(m, o) ==
  IF m.st.transitionInProgress THEN m
  ELSE
    LET currentIndex == m.st.activeIndex
        activeStep == m.st.activeStep
        level == HookLevel(activeStep, "onPrevClick", m.cfg)
        m1 == FireIfSet(m, "onPrevClick", level, activeStep, m.st.activeElement, o.prev)
    IN IF level # "none" /\ safeHook(level, o.prev) = "false" THEN m1
       ELSE IF currentIndex # NoIndex /\ currentIndex > 0
            THEN highlightStep(m1, currentIndex - 1)
            ELSE m1

\* mutant: a close request is not held back during a transition
handleClose_noGuard(m, o) ==
  LET activeStep == m.st.activeStep
      level == HookLevel(activeStep, "onCloseClick", m.cfg)
      m1 == FireIfSet(m, "onCloseClick", level, activeStep, m.st.activeElement, o.close)
  IN IF level # "none" /\ safeHook(level, o.close) = "false" THEN m1
     ELSE performDestroy(m1, TRUE, o)

handleClose(m, o) ==
  IF m.st.transitionInProgress THEN m
  ELSE
    LET activeStep == m.st.activeStep
        level == HookLevel(activeStep, "onCloseClick", m.cfg)
        m1 == FireIfSet(m, "onCloseClick", level, activeStep, m.st.activeElement, o.close)
    IN IF level # "none" /\ safeHook(level, o.close) = "false" THEN m1
       ELSE performDestroy(m1, TRUE, o)

\* ------------------------------------------------------------ event bus
\* emitter.emit: every handler registered when the emit starts is called;
\* an exception of a handler is caught and logged
RECURSIVE RunHandlers(_, _, _, _)
RunHandlers(m, event, k, o) ==
  IF k = 0 THEN m
  ELSE LET r == CASE event = "next" -> handleNext(m, o)
                  [] event = "prev" -> handlePrev(m, o)
                  [] OTHER -> handleClose(m, o)
       IN RunHandlers([r EXCEPT !.err = "none"], event, k - 1, o)

Emit(m, event, o) == RunHandlers(m, event, m.dom.emitterN, o)

\* mutant: Escape closes whatever allowClose says
handleKeydown_escapeIgnoresAllowClose(m, key, o) ==
  IF ~m.st.isInitialized THEN m
  ELSE IF ~m.cfg.allowKeyboardControl THEN m
  ELSE CASE key = "Escape" -> Emit(m, "close", o)
         [] key = "ArrowRight" -> Emit(m, "next", o)
         [] key = "Tab" -> Emit(m, "next", o)
         [] key = "ShiftTab" -> Emit(m, "prev", o)
         [] key = "ArrowLeft" -> Emit(m, "prev", o)
         [] OTHER -> m

handleKeydown(m, key, o) ==
  IF ~m.st.isInitialized THEN m
  ELSE IF ~m.cfg.allowKeyboardControl THEN m
  ELSE CASE key = "Escape" -> IF m.cfg.allowClose THEN Emit(m, "close", o) ELSE m
         [] key = "ArrowRight" -> Emit(m, "next", o)
         [] key = "Tab" -> Emit(m, "next", o)
         [] key = "ShiftTab" -> Emit(m, "prev", o)
         [] key = "ArrowLeft" -> Emit(m, "prev", o)
         [] OTHER -> m

\* mutant: a click on the scrim closes whatever allowClose says
handleOverlayClick_ignoresAllowClose(m, o) ==
  IF ~m.st.isInitialized THEN m ELSE Emit(m, "close", o)

handleOverlayClick(m, o) ==
  IF ~m.st.isInitialized THEN m
  ELSE IF m.cfg.allowClose THEN Emit(m, "close", o) ELSE m

\* a keydown reaches the listeners in the order they were attached; the
\* listener of the current eventsManager is the newest and is skipped when
\* an earlier listener's teardown removed it
RECURSIVE RunLeaked(_, _, _, _)
RunLeaked(m, key, n, o) ==
  IF n = 0 THEN m ELSE RunLeaked(handleKeydown(m, key, o), key, n - 1, o)

DispatchKeydown(m, key, o) ==
  LET leaked == m.dom.attached - (IF m.dom.owned THEN 1 ELSE 0)
      m1 == RunLeaked(m, key, leaked, o)
  IN IF m1.dom.owned THEN handleKeydown(m1, key, o) ELSE m1

\* ------------------------------------------------------------ public API
apiDrive(m, stepIndex) == highlightStep(init(m), stepIndex)

apiMoveTo(m, stepIndex) ==
  highlightStep(IF ~m.st.isInitialized THEN init(m) ELSE m, stepIndex)

apiDestroy(m, o) == performDestroy(m, FALSE, o)

apiHighlight(m, step) ==
  IF step = Undefined THEN Throw(m, "INVALID_STEP")
  ELSE
    LET m1 == init(m)
        element == resolveElement(step)
        m2 == HmHighlight(m1, element)
        m3 == [m2 EXCEPT !.st.activeStep = step,
                         !.st.activeElement = HighlightTarget(element),
                         !.st.activeIndex = NoIndex]
    IN [m3 EXCEPT !.timers = Append(@, [ kind |-> "highlight", step |-> step,
                                         el |-> HighlightTarget(element),
                                         delay |-> SettleDelay(m3.cfg) ])]

\* validateConfig on a partial configuration {key: value}
validateConfig(p) ==
  CASE p.key = "steps" -> IF ~p.isArray THEN "INVALID_CONFIG"
                          ELSE IF ~ValidateSteps(p.list) THEN "INVALID_STEP"
                          ELSE "none"
    [] p.key = "overlayOpacity" -> IF p.num < 0 \/ p.num > 1 THEN "INVALID_CONFIG" ELSE "none"
    [] p.key = "hooks" -> IF ~p.isFunction THEN "INVALID_CONFIG" ELSE "none"
    [] OTHER -> "none"

configSetConfig(m, p) ==
  IF validateConfig(p) # "none" THEN Throw(m, validateConfig(p))
  ELSE CASE p.key = "steps" -> [m EXCEPT !.cfg.steps = p.list]
         [] p.key = "animate" -> [m EXCEPT !.cfg.animate = p.flag]
         [] p.key = "hooks" -> [m EXCEPT !.cfg.hooks = p.hooks]
         [] p.key = "allowClose" -> [m EXCEPT !.cfg.allowClose = p.flag]
         [] p.key = "allowKeyboardControl" ->
              [m EXCEPT !.cfg.allowKeyboardControl = p.flag]
         [] OTHER -> m

\* mutant: the new list is stored without resetting the tour state
apiSetSteps_noReset(m, p) ==
  IF ~p.isArray THEN Throw(m, "INVALID_CONFIG")
  ELSE IF ~ValidateSteps(p.list) THEN Throw(m, "INVALID_STEP")
  ELSE configSetConfig(m, p)

\* mutant: the state is reset before the steps are validated
apiSetSteps_resetFirst(m, p) ==
  IF ~p.isArray THEN Throw(m, "INVALID_CONFIG")
  ELSE IF ~ValidateSteps(p.list) THEN Throw([m EXCEPT !.st = initialState], "INVALID_STEP")
  ELSE configSetConfig([m EXCEPT !.st = initialState], p)

apiSetSteps(m, p) ==
  IF ~p.isArray THEN Throw(m, "INVALID_CONFIG")
  ELSE IF ~ValidateSteps(p.list) THEN Throw(m, "INVALID_STEP")
  ELSE configSetConfig([m EXCEPT !.st = initialState], p)

\* ---------------------------------------------------------------- inputs
Partial(key) == [ key |-> key, isArray |-> TRUE, list |-> <<>>, flag |-> TRUE,
                  hooks |-> {}, isFunction |-> TRUE, num |-> 0 ]

BadStepLists == { <<BadStep>>, <<1, BadStep>> }

StepsInputs ==
  { [Partial("steps") EXCEPT !.list = l] : l \in StepLists \cup BadStepLists }
    \cup { [Partial("steps") EXCEPT !.isArray = FALSE] }

ConfigInputs ==
  StepsInputs
    \cup { [Partial("hooks") EXCEPT !.hooks = h] : h \in HookConfigs }
    \cup { [Partial("hooks") EXCEPT !.hooks = GlobalHooks, !.isFunction = FALSE] }
    \cup { [Partial("overlayOpacity") EXCEPT !.num = 2] }

Indexes == (0 - 1)..MaxSteps

\* highlight(step): not an object, a well-formed step, a malformed step
HighlightInputs == {Undefined, 2, BadStep}

Keys == {"Escape", "ArrowRight", "ArrowLeft", "Tab", "ShiftTab", "Enter"}

NoOracle == [next |-> "undefined", prev |-> "undefined",
             close |-> "undefined", destroy |-> "undefined"]

NextOracles == { [NoOracle EXCEPT !.next = r] : r \in HookRet }
PrevOracles == { [NoOracle EXCEPT !.prev = r] : r \in HookRet }
DestroyOracles == { [NoOracle EXCEPT !.destroy = d] : d \in HookRet }
CloseOracles == { [NoOracle EXCEPT !.close = c, !.destroy = d] : c, d \in HookRet }

KeyOracles(key) ==
  CASE key = "Escape" -> CloseOracles
    [] key \in {"ArrowRight", "Tab"} -> NextOracles
    [] key \in {"ArrowLeft", "ShiftTab"} -> PrevOracles
    [] OTHER -> { NoOracle }

\* what a hook can return in the current state: a hook that is not
\* configured for the active step or globally is not called and returns nothing
HookReturns(name) ==
  IF HookLevel(st.activeStep, name, cfg) = "none" THEN {"undefined"} ELSE HookRet

Configured(O) ==
  { o \in O : /\ o.next \in HookReturns("onNextClick")
              /\ o.prev \in HookReturns("onPrevClick")
              /\ o.close \in HookReturns("onCloseClick")
              /\ o.destroy \in HookReturns("onDestroyStarted") }

\* ---------------------------------------------------------------- actions
Within(m) == Len(m.timers) <= MaxTimers /\ m.dom.attached <= MaxAttached

\* An operation's result m becomes the next state; what it raised (m.err)
\* and the hooks it invoked (m.fired) are observed on m by the properties.
\* The result is bound by \E m \in {...} so that it is computed once.

Init ==
  /\ st = initialState
  /\ \E l \in StepLists, h \in HookConfigs :
       cfg = [DEFAULT_CONFIG EXCEPT !.steps = l, !.hooks = h]
  /\ timers = <<>>
  /\ dom = initialDom
  /\ geo = NoGeo

Drive ==
  \E i \in Indexes :
    /\ \E m \in { apiDrive(Cur, i) } :
         /\ Within(m)
         /\ st' = m.st
         /\ cfg' = m.cfg
         /\ timers' = m.timers
         /\ dom' = m.dom
         /\ geo' = geo

MoveTo ==
  \E i \in Indexes :
    /\ \E m \in { apiMoveTo(Cur, i) } :
         /\ Within(m)
         /\ st' = m.st
         /\ cfg' = m.cfg
         /\ timers' = m.timers
         /\ dom' = m.dom
         /\ geo' = geo

MoveNext ==
  \E o \in Configured(NextOracles) :
    /\ \E m \in { handleNext(Cur, o) } :
         /\ Within(m)
         /\ st' = m.st
         /\ cfg' = m.cfg
         /\ timers' = m.timers
         /\ dom' = m.dom
         /\ geo' = geo

MovePrevious ==
  \E o \in Configured(PrevOracles) :
    /\ \E m \in { handlePrev(Cur, o) } :
         /\ Within(m)
         /\ st' = m.st
         /\ cfg' = m.cfg
         /\ timers' = m.timers
         /\ dom' = m.dom
         /\ geo' = geo

Highlight ==
  \E s \in HighlightInputs :
    /\ \E m \in { apiHighlight(Cur, s) } :
         /\ Within(m)
         /\ st' = m.st
         /\ cfg' = m.cfg
         /\ timers' = m.timers
         /\ dom' = m.dom
         /\ geo' = geo

Destroy ==
  \E o \in Configured(DestroyOracles) :
    /\ \E m \in { apiDestroy(Cur, o) } :
         /\ Within(m)
         /\ st' = m.st
         /\ cfg' = m.cfg
         /\ timers' = m.timers
         /\ dom' = m.dom
         /\ geo' = geo

SetSteps ==
  \E p \in StepsInputs :
    /\ \E m \in { apiSetSteps(Cur, p) } :
         /\ Within(m)
         /\ st' = m.st
         /\ cfg' = m.cfg
         /\ timers' = m.timers
         /\ dom' = m.dom
         /\ geo' = geo

SetConfig ==
  \E p \in ConfigInputs :
    /\ \E m \in { configSetConfig(Cur, p) } :
         /\ Within(m)
         /\ st' = m.st
         /\ cfg' = m.cfg
         /\ timers' = m.timers
         /\ dom' = m.dom
         /\ geo' = geo

KeyDown ==
  \E key \in Keys :
    \E o \in Configured(KeyOracles(key)) :
      /\ dom.attached > 0
      /\ \E m \in { DispatchKeydown(Cur, key, o) } :
           /\ Within(m)
           /\ st' = m.st
           /\ cfg' = m.cfg
           /\ timers' = m.timers
           /\ dom' = m.dom
           /\ geo' = geo

OverlayClick ==
  \E o \in Configured(CloseOracles) :
    /\ dom.overlayEl
    /\ dom.clickHandler
    /\ \E m \in { handleOverlayClick(Cur, o) } :
         /\ Within(m)
         /\ st' = m.st
         /\ cfg' = m.cfg
         /\ timers' = m.timers
         /\ dom' = m.dom
         /\ geo' = geo

\* timers fire in deadline order: a timer may overtake only earlier timers
\* that were scheduled with a strictly longer delay
CanFire(q, k) ==
  /\ k \in 1..Len(q)
  /\ \A j \in 1..(k - 1) : q[j].delay > q[k].delay

Without(q, k) == [j \in 1..(Len(q) - 1) |-> IF j < k THEN q[j] ELSE q[j + 1]]

\* mutant: every callback is the one of highlight(), which leaves the flag
TimerCallback_highlightOnly(m, t) == HighlightTimerCallback(m, t)

TimerCallback(m, t) ==
  IF t.kind = "step" THEN StepTimerCallback(m, t) ELSE HighlightTimerCallback(m, t)

\* the k-th pending timer expires: it leaves the queue and its callback runs
FireTimer(m, k) ==
  TimerCallback([m EXCEPT !.timers = Without(m.timers, k)], m.timers[k])

\* ------------------------------------------------- hooks that call back
\* Every hook receives the driver handle ({config, state, driver: api}) and
\* may call a public method on it before it returns.
HookCalls == {"none", "destroy", "moveNext", "movePrevious", "moveTo", "drive",
              "highlight", "setSteps"}
NavigationCalls == {"moveNext", "movePrevious", "moveTo", "drive"}

NoCalls == [ onDeselected |-> "none", onHighlightStarted |-> "none",
             onHighlighted |-> "none" ]

\* the body of a hook: one call on the driver handle; what the call throws
\* is caught by safeHook
HookCall(m, call) ==
  LET r == CASE call = "destroy" -> apiDestroy(m, NoOracle)
             [] call = "moveNext" -> handleNext(m, NoOracle)
             [] call = "movePrevious" -> handlePrev(m, NoOracle)
             [] call = "moveTo" -> apiMoveTo(m, 0)
             [] call = "drive" -> apiDrive(m, 0)
             [] call = "highlight" -> apiHighlight(m, 2)
             [] call = "setSteps" ->
                  apiSetSteps(m, [Partial("steps") EXCEPT !.list = m.cfg.steps])
             [] OTHER -> m
  IN [r EXCEPT !.err = "none"]

FireCalling(m, name, level, step, el, call) ==
  IF level = "none" THEN m
  ELSE HookCall(Fire(m, name, level, step, el, "undefined"), call)

\* highlightStep with hooks that call back; the locals step, previousStep,
\* previousElement and element keep the values read before the hooks ran
highlightStepCalling(m, stepIndex, calls) ==
  LET steps == m.cfg.steps IN
  IF Len(steps) = 0 THEN Throw(m, "NO_STEPS")
  ELSE IF stepIndex < 0 \/ stepIndex >= Len(steps) THEN Throw(m, "INVALID_STEP_INDEX")
  ELSE IF m.st.transitionInProgress THEN m
  ELSE
    LET step == steps[stepIndex + 1]
        previousStep == m.st.activeStep
        previousElement == m.st.activeElement
        m1 == [m EXCEPT !.st.transitionInProgress = TRUE]
        m2 == IF previousStep # Undefined /\ previousElement # Undefined
              THEN FireCalling(m1, "onDeselected",
                               HookLevel(previousStep, "onDeselected", m1.cfg),
                               previousStep, previousElement, calls.onDeselected)
              ELSE m1
        element == resolveElement(step)
        m3 == FireCalling(m2, "onHighlightStarted",
                          HookLevel(step, "onHighlightStarted", m2.cfg), step,
                          element, calls.onHighlightStarted)
        m4 == [m3 EXCEPT !.st.previousStep = previousStep,
                         !.st.previousElement = previousElement,
                         !.st.activeStep = step,
                         !.st.activeIndex = stepIndex]
        m5 == HmHighlight(m4, element)
        m6 == [m5 EXCEPT !.st.activeElement = HighlightTarget(element)]
    IN [m6 EXCEPT !.timers = Append(@, [ kind |-> "step", step |-> step,
                                         el |-> HighlightTarget(element),
                                         delay |-> SettleDelay(m6.cfg) ])]

\* the setTimeout callback of highlightStep with an onHighlighted that
\* calls back
StepTimerCallbackCalling(m, t, calls) ==
  IF ~m.st.isInitialized THEN m
  ELSE
    LET m1 == IF StepHasPopover(t.step) THEN PopoverRender(m, t.step, t.el) ELSE m
        m2 == FireCalling(m1, "onHighlighted",
                          HookLevel(t.step, "onHighlighted", m1.cfg), t.step, t.el,
                          calls.onHighlighted)
    IN [m2 EXCEPT !.st.transitionInProgress = FALSE]

\* moveTo(stepIndex) with hooks that call back
apiMoveToCalling(m, stepIndex, calls) ==
  highlightStepCalling(IF ~m.st.isInitialized THEN init(m) ELSE m, stepIndex, calls)

\* the k-th pending timer expires; a settle timer's onHighlighted calls back
FireTimerCalling(m, k, calls) ==
  LET t == m.timers[k]
      m0 == [m EXCEPT !.timers = Without(m.timers, k)]
  IN IF t.kind = "step" THEN StepTimerCallbackCalling(m0, t, calls)
     ELSE HighlightTimerCallback(m0, t)

TimerFire ==
  \E k \in 1..Len(timers) :
    /\ CanFire(timers, k)
    /\ \E m \in { FireTimer(Cur, k) } :
         /\ st' = m.st
         /\ cfg' = m.cfg
         /\ timers' = m.timers
         /\ dom' = m.dom
         /\ geo' = geo

\* the next animation frame: the pending callbacks run
RafFire ==
  /\ dom.raf
  /\ \E m \in { RafCallback(Cur) } :
       /\ st' = m.st
       /\ cfg' = m.cfg
       /\ timers' = m.timers
       /\ dom' = m.dom
       /\ geo' = geo

Next ==
  \/ Drive
  \/ MoveTo
  \/ MoveNext
  \/ MovePrevious
  \/ Highlight
  \/ Destroy
  \/ SetSteps
  \/ SetConfig
  \/ KeyDown
  \/ OverlayClick
  \/ TimerFire
  \/ RafFire

Spec == Init /\ [][Next]_vars

\* A timer set with setTimeout expires once its delay has passed: a pending
\* timer is not postponed for ever.
LiveSpec == Init /\ [][Next]_vars /\ WF_vars(TimerFire)

\* ----------------------------------------------------------------- layout
\* The layout computations are pure functions of the page geometry.  Each
\* layout action draws one input from a bounded set, applies the function
\* and records input and result in geo, starting from an empty record; the
\* controller state stays put.
Controller == <<st, cfg, timers, dom>>

\* ---- stacking layers: the z-index of .tg-overlay and .tg-popover
OverlayZ == 2147483640
PopoverZ == 2147483642
CssMaxZ == 2147483647     \* the largest z-index a page can use

Auto == 0 - 1             \* an ancestor without a numeric z-index
ZValues == {Auto, 0, 5, 12, OverlayZ - 1, OverlayZ, CssMaxZ}

RECURSIVE ChainsUpTo(_)
ChainsUpTo(n) ==
  IF n = 0 THEN { <<>> }
  ELSE LET shorter == ChainsUpTo(n - 1)
       IN shorter \cup { Append(c, z) : c \in { d \in shorter : Len(d) = n - 1 },
                                        z \in ZValues }

\* the layers every instance gets from the injected style sheet
StackingLayers == [ overlayZ |-> OverlayZ, popoverZ |-> PopoverZ ]

\* a target with the given ancestor chain (innermost first) is configured
ResolveLayers ==
  /\ geo = NoGeo
  /\ \E chain \in ChainsUpTo(MaxChain) :
       geo' = [ kind |-> "layers", chain |-> chain,
                overlayZ |-> StackingLayers.overlayZ,
                popoverZ |-> StackingLayers.popoverZ ]
  /\ UNCHANGED Controller

\* ---- scrim cutout
Min(a, b) == IF a <= b THEN a ELSE b
Max(a, b) == IF a >= b THEN a ELSE b

Viewports == { [w |-> w, h |-> h] : w, h \in {MaxExtent - 1, MaxExtent} }
Coords == (0 - 2)..(MaxExtent + 1)
Sizes == 0..(MaxExtent - 1)
Paddings == {0 - 1, 0, 2}        \* stagePadding is not validated
Radii == {0, 1, MaxExtent}       \* stageRadius is not validated

\* element.getBoundingClientRect()
ElementBoxes ==
  { [left |-> l, top |-> t, width |-> bw, height |-> bh] :
      l \in Coords, t \in Coords, bw \in Sizes, bh \in Sizes }

getElementRect(box, padding, radius) ==
  [ x |-> box.left - padding,
    y |-> box.top - padding,
    width |-> box.width + padding * 2,
    height |-> box.height + padding * 2,
    radius |-> radius ]

\* mutant: the radius is used as configured
refreshSVG_radiusAsConfigured(rect) ==
  [ x |-> rect.x, y |-> rect.y, width |-> rect.width, height |-> rect.height,
    twoR |-> 2 * rect.radius,
    rounded |-> rect.radius > 0 ]

\* refreshSVG(rect) for a rect: the inner path that is drawn.  The radius
\* r = min(radius, width / 2, height / 2) is kept doubled (twoR = 2r) to
\* stay within the integers.
refreshSVG(rect) ==
  [ x |-> rect.x, y |-> rect.y, width |-> rect.width, height |-> rect.height,
    twoR |-> Min(2 * rect.radius, Min(rect.width, rect.height)),
    rounded |-> Min(2 * rect.radius, Min(rect.width, rect.height)) > 0 ]

\* highlightManager.refresh() for an element: measure, pad, draw
DrawCutout ==
  /\ geo = NoGeo
  /\ \E v \in Viewports, box \in ElementBoxes, p \in Paddings, r \in Radii :
       geo' = [ kind |-> "cutout", viewport |-> v, box |-> box,
                stagePadding |-> p, stageRadius |-> r,
                drawn |-> refreshSVG(getElementRect(box, p, r)) ]
  /\ UNCHANGED Controller

\* ---- popover positioner
margin == 8            \* reposition: var margin = 8
sideBuffer == 20       \* calculateBestSide: needed + 20
popoverOffset == 10    \* DEFAULT_CONFIG.popoverOffset

\* Lengths are multiples of the margin, so the halves taken by the centred
\* alignment are whole numbers.
PxViewports ==
  { [w |-> w * margin, h |-> h * margin] :
      w, h \in {2 * MaxExtent - 2, 2 * MaxExtent} }
TargetRects ==
  { [left |-> l * margin, top |-> t * margin,
     right |-> (l + bw) * margin, bottom |-> (t + bh) * margin,
     width |-> bw * margin, height |-> bh * margin] :
      l \in (0 - 1)..(2 * MaxExtent), t \in (0 - 1)..(2 * MaxExtent),
      bw \in 1..2, bh \in 1..2 }
PopoverRects ==
  { [width |-> pw * margin, height |-> ph * margin] :
      pw, ph \in {1, 3, 2 * MaxExtent - 1} }
Sides == <<"bottom", "top", "right", "left">>
SideInputs == {"none", "bottom", "top", "right", "left"}
AlignInputs == {"none", "start", "end"}
Offsets == {0, popoverOffset}

spacesOf(targetRect, viewport) ==
  << [side |-> "bottom", space |-> viewport.h - targetRect.bottom],
     [side |-> "top", space |-> targetRect.top],
     [side |-> "right", space |-> viewport.w - targetRect.right],
     [side |-> "left", space |-> targetRect.left] >>

needed(side, popoverRect) ==
  IF side \in {"top", "bottom"} THEN popoverRect.height ELSE popoverRect.width

\* spaces.sort((a, b) => b.space - a.space): stable, descending
RECURSIVE InsertDesc(_, _)
InsertDesc(sorted, e) ==
  IF sorted = <<>> THEN <<e>>
  ELSE IF Head(sorted).space >= e.space
       THEN <<Head(sorted)>> \o InsertDesc(Tail(sorted), e)
       ELSE <<e>> \o sorted
RECURSIVE SortDesc(_)
SortDesc(spaces) ==
  IF spaces = <<>> THEN <<>>
  ELSE InsertDesc(SortDesc(SubSeq(spaces, 1, Len(spaces) - 1)),
                  spaces[Len(spaces)])

RECURSIVE firstFit(_, _, _)
firstFit(spaces, popoverRect, i) ==
  IF i > Len(spaces) THEN "none"
  ELSE IF spaces[i].space >= needed(spaces[i].side, popoverRect) + sideBuffer
       THEN spaces[i].side
       ELSE firstFit(spaces, popoverRect, i + 1)

\* mutant: the buffer is left out of the first-fit test
calculateBestSide_noBuffer(targetRect, popoverRect, viewport) ==
  LET spaces == spacesOf(targetRect, viewport)
      RECURSIVE fit(_)
      fit(i) == IF i > Len(spaces) THEN "none"
                ELSE IF spaces[i].space >= needed(spaces[i].side, popoverRect)
                     THEN spaces[i].side
                     ELSE fit(i + 1)
  IN IF fit(1) # "none" THEN fit(1) ELSE SortDesc(spaces)[1].side

calculateBestSide(targetRect, popoverRect, viewport) ==
  LET spaces == spacesOf(targetRect, viewport)
      fit == firstFit(spaces, popoverRect, 1)
  IN IF fit # "none" THEN fit ELSE SortDesc(spaces)[1].side

calcAlign(targetRect, popoverRect, align, axis) ==
  IF axis = "horizontal"
  THEN CASE align = "start" -> targetRect.left
         [] align = "end" -> targetRect.right - popoverRect.width
         [] OTHER -> targetRect.left + (targetRect.width \div 2)
                       - (popoverRect.width \div 2)
  ELSE CASE align = "start" -> targetRect.top
         [] align = "end" -> targetRect.bottom - popoverRect.height
         [] OTHER -> targetRect.top + (targetRect.height \div 2)
                       - (popoverRect.height \div 2)

\* the position before clamping (the switch on side)
idealPosition(targetRect, popoverRect, side, align, offset) ==
  CASE side = "top" ->
         [ top |-> targetRect.top - popoverRect.height - offset,
           left |-> calcAlign(targetRect, popoverRect, align, "horizontal") ]
    [] side = "left" ->
         [ top |-> calcAlign(targetRect, popoverRect, align, "vertical"),
           left |-> targetRect.left - popoverRect.width - offset ]
    [] side = "right" ->
         [ top |-> calcAlign(targetRect, popoverRect, align, "vertical"),
           left |-> targetRect.right + offset ]
    [] OTHER ->
         [ top |-> targetRect.bottom + offset,
           left |-> calcAlign(targetRect, popoverRect, align, "horizontal") ]

\* mutant: the lower edge is applied first, the upper edge last
clamp_upperEdgeLast(v, extent, panel) ==
  Min(Max(margin, v), extent - panel - margin)

\* Math.max(margin, Math.min(v, extent - panel - margin))
clamp(v, extent, panel) ==
  Max(margin, Min(v, extent - panel - margin))

\* reposition(targetElement, step) for a target element: the geometry
placePopover(targetRect, popoverRect, popover, offset, viewport) ==
  LET side == IF popover.side # "none" THEN popover.side
              ELSE calculateBestSide(targetRect, popoverRect, viewport)
      align == IF popover.align # "none" THEN popover.align ELSE "center"
      ideal == idealPosition(targetRect, popoverRect, side, align, offset)
  IN [ side |-> side,
       ideal |-> ideal,
       top |-> clamp(ideal.top, viewport.h, popoverRect.height),
       left |-> clamp(ideal.left, viewport.w, popoverRect.width) ]

Reposition ==
  /\ geo = NoGeo
  /\ \E v \in PxViewports, t \in TargetRects, p \in PopoverRects,
        sd \in SideInputs, al \in AlignInputs, off \in Offsets :
       geo' = [ kind |-> "popover", viewport |-> v, targetRect |-> t,
                popoverRect |-> p, popover |-> [side |-> sd, align |-> al],
                offset |-> off,
                placed |-> placePopover(t, p, [side |-> sd, align |-> al],
                                        off, v) ]
  /\ UNCHANGED Controller

LayoutInit ==
  /\ st = initialState
  /\ cfg = DEFAULT_CONFIG
  /\ timers = <<>>
  /\ dom = initialDom
  /\ geo = NoGeo

LayoutNext ==
  \/ ResolveLayers
  \/ DrawCutout
  \/ Reposition

LayoutSpec == LayoutInit /\ [][LayoutNext]_vars

\* ------------------------------------------------------------- queries
isActive(m) == m.st.isInitialized
getActiveIndex(m) == m.st.activeIndex
isFirstStep(m) == m.st.activeIndex = 0
isLastStep(m) ==
  m.st.activeIndex # NoIndex /\ m.st.activeIndex = Len(m.cfg.steps) - 1

\* --------------------------------------------------- property vocabulary
N == Len(cfg.steps)
Idle == st.isInitialized /\ ~st.transitionInProgress
StepTimers(q) == { k \in 1..Len(q) : q[k].kind = "step" }

\* the operation left TourState, timers and DOM exactly as they are now
Untouched(m) == m.st = st /\ m.timers = timers /\ m.dom = dom /\ m.cfg = cfg

\* every pending timer expires, oldest first
RECURSIVE Settle(_)
Settle(m) == IF m.timers = <<>> THEN m ELSE Settle(FireTimer(m, 1))

\* n times: moveNext(), then the deferred render of that transition fires
RECURSIVE NextN(_, _, _)
NextN(m, n, o) == IF n = 0 THEN m ELSE NextN(Settle(handleNext(m, o)), n - 1, o)

\* ================================================================ claims

\* C1: for every step list of length N >= 1 on an inactive instance,
\* drive(0) makes getActiveIndex() 0 and isFirstStep() true; N-1 calls of
\* moveNext(), each after the pending deferred renders fired, reach
\* getActiveIndex() = N-1 with isLastStep() true; one further moveNext()
\* leaves isActive() false (no onNextClick hook returning false).
C1_DriveThenNextWalksTheTour ==
  \A o \in NextOracles :
    (~st.isInitialized /\ N >= 1 /\ o.next # "false") =>
      LET d == apiDrive(Cur, 0)
          a == NextN(Settle(d), N - 1, o)
          z == handleNext(a, o)
      IN /\ d.err = "none"
         /\ isActive(d) /\ getActiveIndex(d) = 0 /\ isFirstStep(d)
         /\ isActive(a) /\ getActiveIndex(a) = N - 1 /\ isLastStep(a)
         /\ ~a.st.transitionInProgress
         /\ ~isActive(z)

\* the tour stands idle on its last step, reached by moveNext() from N-2
C1_Witness ==
  /\ N >= 2
  /\ Idle /\ timers = <<>>
  /\ st.activeIndex = N - 1
  /\ st.activeStep = cfg.steps[N]
  /\ st.previousStep = cfg.steps[N - 1]

\* C2: while the deferred render of the active step's transition is still
\* pending, moveNext(), movePrevious() and moveTo(i) never change activeIndex.
C2_NavigationNeverOverlapsPendingRender ==
  (st.isInitialized /\ st.activeIndex # NoIndex
     /\ \E k \in StepTimers(timers) : timers[k].step = st.activeStep) =>
       /\ \A o \in NextOracles : handleNext(Cur, o).st.activeIndex = st.activeIndex
       /\ \A o \in PrevOracles : handlePrev(Cur, o).st.activeIndex = st.activeIndex
       /\ \A i \in Indexes : apiMoveTo(Cur, i).st.activeIndex = st.activeIndex

\* C3: while the instance is active, at most one highlightStep settle-timer
\* callback is pending.
C3_AtMostOneTransitionInFlight ==
  st.isInitialized => Cardinality(StepTimers(timers)) <= 1

\* C4 as claimed: while transitionInProgress is set, no public method and no
\* close input changes any TourState field.
C4_FlagBlocksEveryMutator ==
  st.transitionInProgress =>
    /\ \A i \in Indexes : apiDrive(Cur, i).st = st /\ apiMoveTo(Cur, i).st = st
    /\ \A o \in NextOracles : handleNext(Cur, o).st = st
    /\ \A o \in PrevOracles : handlePrev(Cur, o).st = st
    /\ \A o \in CloseOracles : handleOverlayClick(Cur, o).st = st
    /\ \A key \in Keys : \A o \in KeyOracles(key) : DispatchKeydown(Cur, key, o).st = st
    /\ \A p \in ConfigInputs : configSetConfig(Cur, p).st = st
    /\ \A s \in HighlightInputs : apiHighlight(Cur, s).st = st
    /\ \A o \in DestroyOracles : apiDestroy(Cur, o).st = st
    /\ \A p \in StepsInputs : apiSetSteps(Cur, p).st = st

\* C4 amended: while transitionInProgress is set, drive, moveTo, moveNext,
\* movePrevious, setConfig and the close/navigation inputs (keyboard, scrim
\* click) change no TourState field and invoke no hook.
C4_FlagBlocksNavigationAndClose ==
  st.transitionInProgress =>
    /\ \A i \in Indexes : apiDrive(Cur, i).st = st /\ apiMoveTo(Cur, i).st = st
    /\ \A i \in Indexes : apiDrive(Cur, i).fired = <<>> /\ apiMoveTo(Cur, i).fired = <<>>
    /\ \A o \in NextOracles : handleNext(Cur, o).st = st /\ handleNext(Cur, o).fired = <<>>
    /\ \A o \in PrevOracles : handlePrev(Cur, o).st = st /\ handlePrev(Cur, o).fired = <<>>
    /\ \A o \in CloseOracles :
         handleOverlayClick(Cur, o).st = st /\ handleOverlayClick(Cur, o).fired = <<>>
    /\ \A key \in Keys : \A o \in KeyOracles(key) :
         DispatchKeydown(Cur, key, o).st = st /\ DispatchKeydown(Cur, key, o).fired = <<>>
    /\ \A p \in ConfigInputs : configSetConfig(Cur, p).st = st

C4_Witness ==
  /\ st.isInitialized /\ st.transitionInProgress
  /\ st.activeIndex # NoIndex
  /\ dom.attached > 0 /\ dom.emitterN > 0
  /\ cfg.allowClose /\ cfg.allowKeyboardControl

\* C5: with an onDestroyStarted hook that returns false, destroy() on an
\* active tour leaves isActive() true and getActiveIndex() unchanged.
C5_DestroyCancelledByOnDestroyStarted ==
  \A o \in DestroyOracles :
    (Idle /\ st.activeIndex # NoIndex /\ "onDestroyStarted" \in cfg.hooks
       /\ o.destroy = "false") =>
      LET m == apiDestroy(Cur, o)
      IN isActive(m) /\ getActiveIndex(m) = st.activeIndex

\* C6: a settle-timer callback that fires after destroy() is a no-op, also
\* when the instance was driven again before it fires: no popover rendered,
\* no hook fired, no TourState field changed.
C6_CallbackAfterDestroyIsNoOp ==
  \A i \in 0..(N - 1) :
    timers # <<>> =>
      LET gone == apiDestroy(Cur, NoOracle)
          late == FireTimer(gone, 1)
          again == apiDrive(gone, i)
          stale == FireTimer(again, 1)
      IN /\ late.st = gone.st /\ late.dom = gone.dom /\ late.fired = gone.fired
         /\ stale.st = again.st /\ stale.dom = again.dom /\ stale.fired = again.fired

\* the operation's outcome apart from the hooks configured and invoked
SameOutcome(a, b) ==
  /\ a.st = b.st /\ a.timers = b.timers /\ a.dom = b.dom
  /\ a.cfg.steps = b.cfg.steps /\ a.err = b.err

WithoutGlobal(m, name) == [m EXCEPT !.cfg.hooks = @ \ {name}]

\* the gated operation run with hook `name` returning r, against the same
\* operation with the hook returning undefined and with the hook not configured
Gate(name, level, r, m, asUndefined, unhooked) ==
  level # "none" =>
    /\ m.fired # <<>> /\ m.fired[1].hook = name /\ m.fired[1].ret = r
    /\ r = "false" => (Untouched(m) /\ Len(m.fired) = 1)
    /\ r # "false" => SameOutcome(m, asUndefined)
    /\ (r # "false" /\ level = "global") =>
         (SameOutcome(m, unhooked) /\ Tail(m.fired) = unhooked.fired)

\* C7: onNextClick, onPrevClick, onCloseClick and onDestroyStarted cancel
\* the operation they gate exactly when they return false; when they throw
\* or return undefined or anything else, the outcome is that of the same
\* operation with no hook configured.
C7_OnlyFalseCancels ==
  ~st.transitionInProgress =>
    /\ \A o \in NextOracles :
         Gate("onNextClick", HookLevel(st.activeStep, "onNextClick", cfg), o.next,
              handleNext(Cur, o),
              handleNext(Cur, [o EXCEPT !.next = "undefined"]),
              handleNext(WithoutGlobal(Cur, "onNextClick"), o))
    /\ \A o \in PrevOracles :
         Gate("onPrevClick", HookLevel(st.activeStep, "onPrevClick", cfg), o.prev,
              handlePrev(Cur, o),
              handlePrev(Cur, [o EXCEPT !.prev = "undefined"]),
              handlePrev(WithoutGlobal(Cur, "onPrevClick"), o))
    /\ \A o \in CloseOracles :
         Gate("onCloseClick", HookLevel(st.activeStep, "onCloseClick", cfg), o.close,
              handleClose(Cur, o),
              handleClose(Cur, [o EXCEPT !.close = "undefined"]),
              handleClose(WithoutGlobal(Cur, "onCloseClick"), o))
    /\ \A o \in DestroyOracles :
         Gate("onDestroyStarted",
              IF "onDestroyStarted" \in cfg.hooks THEN "global" ELSE "none", o.destroy,
              performDestroy(Cur, TRUE, o),
              performDestroy(Cur, TRUE, [o EXCEPT !.destroy = "undefined"]),
              performDestroy(WithoutGlobal(Cur, "onDestroyStarted"), TRUE, o))

\* an idle tour on a step that has a next step, with global gating hooks
C7_Witness ==
  /\ Idle /\ timers = <<>>
  /\ st.activeIndex \in 0..(N - 2)
  /\ st.previousStep # Undefined
  /\ HookLevel(st.activeStep, "onNextClick", cfg) = "global"
  /\ "onDestroyStarted" \in cfg.hooks

\* C8: when onNextClick (onPrevClick) returns false, moveNext()
\* (movePrevious()) changes no TourState field, invokes no other hook,
\* schedules no deferred render and does not tear down, also on the last step.
C8_CancelledNavigationChangesNothing ==
  /\ \A o \in NextOracles :
       (HookLevel(st.activeStep, "onNextClick", cfg) # "none" /\ o.next = "false") =>
         LET m == handleNext(Cur, o)
         IN /\ Untouched(m) /\ m.err = "none"
            /\ \A k \in 1..Len(m.fired) : k = 1 /\ m.fired[k].hook = "onNextClick"
  /\ \A o \in PrevOracles :
       (HookLevel(st.activeStep, "onPrevClick", cfg) # "none" /\ o.prev = "false") =>
         LET m == handlePrev(Cur, o)
         IN /\ Untouched(m) /\ m.err = "none"
            /\ \A k \in 1..Len(m.fired) : k = 1 /\ m.fired[k].hook = "onPrevClick"

\* an idle tour on its last step whose moveNext() is gated by a hook
C8_Witness ==
  /\ Idle /\ N >= 2 /\ st.activeIndex = N - 1
  /\ HookLevel(st.activeStep, "onNextClick", cfg) # "none"
  /\ HookLevel(st.activeStep, "onPrevClick", cfg) # "none"

ExpectedError(i) ==
  IF N = 0 THEN "NO_STEPS"
  ELSE IF i < 0 \/ i >= N THEN "INVALID_STEP_INDEX"
  ELSE "none"

RaisedCleanly(m) ==
  m.err # "none" =>
    /\ m.st.activeIndex = st.activeIndex
    /\ m.st.activeStep = st.activeStep
    /\ m.st.activeElement = st.activeElement
    /\ m.fired = <<>>
    /\ m.timers = timers

\* C9: drive(i) and moveTo(i) raise NO_STEPS on an empty step list and
\* INVALID_STEP_INDEX for i < 0 or i >= length, then leave activeIndex,
\* activeStep and activeElement alone and invoke no hook; a valid index
\* raises nothing.
C9_IndexErrorsAreRaised ==
  \A i \in Indexes :
    /\ apiDrive(Cur, i).err = ExpectedError(i)
    /\ apiMoveTo(Cur, i).err = ExpectedError(i)
    /\ RaisedCleanly(apiDrive(Cur, i))
    /\ RaisedCleanly(apiMoveTo(Cur, i))

\* drive() was called on an instance without steps: it raised after init()
C9_Witness ==
  /\ N = 0 /\ st.isInitialized
  /\ st.activeIndex = NoIndex /\ st.activeStep = Undefined
  /\ timers = <<>>

HookFired(m, name) == \E k \in 1..Len(m.fired) : m.fired[k].hook = name

\* results of onNextClick / onPrevClick together with onDestroyStarted
EndOracles ==
  { [NoOracle EXCEPT !.next = r, !.prev = r, !.destroy = d] : r, d \in HookRet }

NextCancelled(o) ==
  HookLevel(st.activeStep, "onNextClick", cfg) # "none" /\ o.next = "false"

\* C11: moveNext() on the last step tears the tour down without calling
\* onDestroyStarted, whatever that hook would return; no navigation call,
\* navigation key or timer callback calls it, a close request does.
C11_NaturalEndSkipsOnDestroyStarted ==
  /\ \A o \in EndOracles :
       LET m == handleNext(Cur, o)
       IN /\ ~HookFired(m, "onDestroyStarted")
          /\ (Idle /\ st.activeIndex = N - 1 /\ ~NextCancelled(o)) =>
               (~isActive(m) /\ m.st = initialState /\ ~m.dom.overlayEl)
  /\ \A o \in EndOracles :
       /\ ~HookFired(handlePrev(Cur, o), "onDestroyStarted")
       /\ \A key \in Keys \ {"Escape"} :
            ~HookFired(DispatchKeydown(Cur, key, o), "onDestroyStarted")
  /\ \A i \in Indexes :
       /\ ~HookFired(apiDrive(Cur, i), "onDestroyStarted")
       /\ ~HookFired(apiMoveTo(Cur, i), "onDestroyStarted")
  /\ \A k \in 1..Len(timers) : ~HookFired(FireTimer(Cur, k), "onDestroyStarted")
  /\ \A o \in CloseOracles :
       (~st.transitionInProgress /\ "onDestroyStarted" \in cfg.hooks
          /\ safeHook(HookLevel(st.activeStep, "onCloseClick", cfg), o.close) # "false") =>
         HookFired(handleClose(Cur, o), "onDestroyStarted")

\* an idle tour on its last step with onDestroyStarted configured
C11_Witness ==
  /\ Idle /\ timers = <<>>
  /\ N >= 2 /\ st.activeIndex = N - 1
  /\ "onDestroyStarted" \in cfg.hooks

\* the trace of a teardown after its gating hooks
TeardownTrace(m) ==
  SelectSeq(m.fired, LAMBDA e : e.hook \in {"onDeselected", "onDestroyed", "focus"})

TornDown(d) ==
  /\ ~d.popoverEl /\ ~d.overlayEl /\ ~d.dummyElement /\ ~d.bodyActive
  /\ ~d.owned /\ ~d.clickHandler /\ d.emitterN = 0

\* what an uncancelled teardown of the active step must look like
TeardownInOrder(m) ==
  LET t == TeardownTrace(m)
      des == HookLevel(st.activeStep, "onDeselected", cfg) # "none"
      ded == "onDestroyed" \in cfg.hooks
      iDes == 1
      iDed == IF des THEN 2 ELSE 1
      iFoc == iDed + (IF ded THEN 1 ELSE 0)
  IN /\ Len(t) = iFoc
     /\ des => /\ t[iDes].hook = "onDeselected"
               /\ t[iDes].step = st.activeStep /\ t[iDes].el = st.activeElement
               /\ t[iDes].active /\ t[iDes].idx = st.activeIndex
               /\ t[iDes].dom = dom
     /\ ded => /\ t[iDed].hook = "onDestroyed"
               /\ t[iDed].step = st.activeStep /\ t[iDed].el = st.activeElement
               /\ ~t[iDed].active /\ t[iDed].idx = NoIndex
               /\ TornDown(t[iDed].dom)
     /\ t[iFoc].hook = "focus" /\ t[iFoc].el = st.focusedBeforeActivation
     /\ ~t[iFoc].active /\ TornDown(t[iFoc].dom)
     /\ m.st = initialState /\ TornDown(m.dom)

\* C12: an uncancelled teardown of an active step calls onDeselected on the
\* intact tour, then removes popover, scrim and placeholder, detaches the
\* listeners and clears the event bus, resets TourState, then calls
\* onDestroyed with the step and element that were active (isActive()
\* already false), then restores the focus.
C12_TeardownOrder ==
  (st.isInitialized /\ st.activeStep # Undefined) =>
    /\ \A o \in DestroyOracles : TeardownInOrder(apiDestroy(Cur, o))
    /\ \A o \in CloseOracles :
         (~st.transitionInProgress
            /\ safeHook(HookLevel(st.activeStep, "onCloseClick", cfg), o.close) # "false"
            /\ safeHook(IF "onDestroyStarted" \in cfg.hooks THEN "global" ELSE "none",
                        o.destroy) # "false") =>
           TeardownInOrder(handleClose(Cur, o))
    /\ \A o \in EndOracles :
         (Idle /\ st.activeIndex = N - 1 /\ ~NextCancelled(o)) =>
           TeardownInOrder(handleNext(Cur, o))

\* an idle tour with a rendered popover and both teardown hooks configured
C12_Witness ==
  /\ Idle /\ st.activeStep # Undefined
  /\ dom.popoverEl /\ dom.overlayEl
  /\ "onDestroyed" \in cfg.hooks
  /\ HookLevel(st.activeStep, "onDeselected", cfg) # "none"

\* C13: destroy() from any state, idle or mid-transition, leaves every
\* TourState field at its initial value; drive(0) then starts the tour
\* again on the same instance.
C13_DestroyResetsAndAllowsRedrive ==
  \A o \in DestroyOracles :
    LET d == apiDestroy(Cur, o)
        r == apiDrive(d, 0)
    IN /\ d.st = initialState
       /\ d.err = "none"
       /\ N >= 1 => (r.err = "none" /\ isActive(r) /\ getActiveIndex(r) = 0
                       /\ r.st.activeStep = cfg.steps[1])

\* a tour in the middle of a transition away from a previous step
C13_Witness ==
  /\ st.isInitialized /\ st.transitionInProgress
  /\ st.activeIndex # NoIndex /\ st.previousStep # Undefined
  /\ StepTimers(timers) # {}

\* ------------------------------------- configuration updates (C14 - C16)
\* the shape rules of validateConfig / validateStep, stated on the input
WellFormed(p) ==
  CASE p.key = "steps" -> p.isArray /\ \A k \in 1..Len(p.list) :
                            p.list[k] \in ValidSteps
    [] p.key = "overlayOpacity" -> p.num \in 0..1
    [] p.key = "hooks" -> p.isFunction
    [] OTHER -> TRUE

\* C14 as claimed: a successful setConfig(partial) and a successful
\* setSteps(steps) both reset TourState to its initial value.
C14_SetConfigAndSetStepsReset ==
  /\ \A p \in ConfigInputs :
       LET m == configSetConfig(Cur, p) IN m.err = "none" => m.st = initialState
  /\ \A p \in StepsInputs :
       LET m == apiSetSteps(Cur, p) IN m.err = "none" => m.st = initialState

\* C14 amended: setSteps(steps) and setConfig(partial) succeed exactly on
\* well-formed input; a successful setSteps stores the list and resets
\* TourState to its initial value (DOM and timers stay); a successful
\* setConfig merges the partial and leaves every TourState field unchanged.
C14_SetStepsResetsSetConfigMerges ==
  /\ \A p \in StepsInputs :
       LET m == apiSetSteps(Cur, p)
       IN /\ (m.err = "none") <=> WellFormed(p)
          /\ m.err = "none" =>
               /\ m.st = initialState
               /\ m.cfg = [cfg EXCEPT !.steps = p.list]
               /\ m.dom = dom /\ m.timers = timers /\ m.fired = <<>>
  /\ \A p \in ConfigInputs :
       LET m == configSetConfig(Cur, p)
       IN /\ (m.err = "none") <=> WellFormed(p)
          /\ m.err = "none" =>
               /\ m.st = st
               /\ p.key = "steps" => m.cfg = [cfg EXCEPT !.steps = p.list]
               /\ p.key = "hooks" => m.cfg = [cfg EXCEPT !.hooks = p.hooks]
               /\ m.dom = dom /\ m.timers = timers /\ m.fired = <<>>

\* setSteps() was called on a running tour: TourState is empty while the
\* scrim and the listeners of that tour are still on the page
C14_Witness ==
  /\ st = initialState
  /\ dom.overlayEl /\ dom.owned /\ dom.attached > 0

\* C15: setConfig(partial) and setSteps(steps) on malformed input raise
\* INVALID_CONFIG (steps not an array, bad option value) or INVALID_STEP
\* (bad step) and leave configuration, TourState, timers and DOM as they were.
C15_MalformedInputChangesNothing ==
  /\ \A p \in ConfigInputs :
       ~WellFormed(p) =>
         LET m == configSetConfig(Cur, p)
         IN /\ m.err = (IF p.key = "steps" /\ p.isArray THEN "INVALID_STEP"
                        ELSE "INVALID_CONFIG")
            /\ Untouched(m) /\ m.fired = <<>>
  /\ \A p \in StepsInputs :
       ~WellFormed(p) =>
         LET m == apiSetSteps(Cur, p)
         IN /\ m.err = (IF p.isArray THEN "INVALID_STEP" ELSE "INVALID_CONFIG")
            /\ Untouched(m) /\ m.fired = <<>>

\* a running tour with a rendered popover, which a failed update must keep
C15_Witness ==
  /\ Idle /\ N >= 1
  /\ st.activeIndex \in 0..(N - 1)
  /\ dom.popoverEl /\ dom.currentStep = st.activeStep

\* C16: highlight(step) with a malformed step raises INVALID_STEP before
\* the driver is initialized or any TourState field changes.
C16_HighlightValidatesStep ==
  \A s \in HighlightInputs :
    ~ValidateStep(s) =>
      LET m == apiHighlight(Cur, s)
      IN m.err = "INVALID_STEP" /\ Untouched(m)

\* --------------------------------------- unresolvable targets (C17, C18)
Unresolvable(step) == resolveElement(step) = Undefined

C18_UnresolvedStepPopoverIsModal ==
  (dom.popoverEl /\ dom.currentStep # Undefined /\ Unresolvable(dom.currentStep))
    => dom.modal

\* ------------------------------------------------- two instances (C19)
\* a second driver created by tamperGuide(config) on the same page: its own
\* state, configuration, timers and nodes; document.body and its class
\* list are the page's, shared with the first instance
SecondInstance(c) ==
  [ st |-> initialState, cfg |-> c, timers |-> <<>>,
    dom |-> [initialDom EXCEPT !.bodyActive = dom.bodyActive],
    fired |-> <<>>, err |-> "none" ]

SecondConfigs == { [DEFAULT_CONFIG EXCEPT !.steps = l] : l \in StepLists }

\* the second instance after one public call
SecondAfter(b) ==
  { apiDrive(b, i) : i \in Indexes }
    \cup { handleNext(b, NoOracle), apiDestroy(b, NoOracle) }
    \cup { apiHighlight(b, s) : s \in HighlightInputs }
    \cup { apiSetSteps(b, p) : p \in StepsInputs }

\* C19: while this instance is active and relies on the page-level
\* scroll-lock marker, no operation on a second instance (drive, moveNext,
\* highlight, destroy, setSteps), also a second one in a row, removes it.
C19_OtherInstanceKeepsScrollLock ==
  (st.isInitialized /\ dom.bodyActive) =>
    \A c \in SecondConfigs :
      \A b1 \in SecondAfter(SecondInstance(c)) :
        /\ b1.dom.bodyActive
        /\ \A b2 \in SecondAfter([b1 EXCEPT !.fired = <<>>, !.err = "none"]) :
             b2.dom.bodyActive

\* ---------------------------------------------------- keyboard (C20)
\* the driver after setConfig({allowClose: ac}) and
\* setConfig({allowKeyboardControl: akc})
WithSwitches(ac, akc) ==
  configSetConfig(
    configSetConfig(Cur, [Partial("allowClose") EXCEPT !.flag = ac]),
    [Partial("allowKeyboardControl") EXCEPT !.flag = akc])

\* the event a key stands for when keyboard control is on
KeyEvent(key, ac) ==
  CASE key \in {"ArrowRight", "Tab"} -> "next"
    [] key \in {"ArrowLeft", "ShiftTab"} -> "prev"
    [] key = "Escape" /\ ac -> "close"
    [] OTHER -> "none"

Handler(event, m, o) ==
  CASE event = "next" -> handleNext(m, o)
    [] event = "prev" -> handlePrev(m, o)
    [] OTHER -> handleClose(m, o)

SameRun(a, b) == SameOutcome(a, b) /\ a.cfg = b.cfg /\ a.fired = b.fired

\* C20: with the tour initialized and allowKeyboardControl true, ArrowRight
\* and Tab emit next, ArrowLeft and Shift+Tab emit previous, Escape emits
\* close exactly when allowClose is true, and any other key does nothing
\* (the event bus runs the handler and keeps what it raises from the caller);
\* with the tour not initialized or allowKeyboardControl false, no key
\* calls a handler or a hook or changes anything.
C20_KeyboardContract ==
  \A ac, akc \in BOOLEAN :
    LET c == WithSwitches(ac, akc) IN
    \A key \in Keys :
      \A o \in KeyOracles(key) :
        LET m == handleKeydown(c, key, o)
            event == KeyEvent(key, ac)
        IN /\ c.err = "none" /\ c.st = st
           /\ (c.st.isInitialized /\ akc /\ event # "none") =>
                /\ c.dom.emitterN >= 1
                /\ SameRun(m, Emit(c, event, o))
                /\ m.err = "none"
                /\ c.dom.emitterN = 1 =>
                     SameRun(m, [Handler(event, c, o) EXCEPT !.err = "none"])
           /\ (~c.st.isInitialized \/ ~akc \/ event = "none") =>
                /\ m = c
                /\ DispatchKeydown(c, key, o) = c

\* an idle tour on its first of several steps with one keydown listener:
\* ArrowRight, ArrowLeft and Escape all have something to do
C20_Witness ==
  /\ Idle /\ timers = <<>>
  /\ dom.owned /\ dom.attached = 1 /\ dom.emitterN = 1
  /\ N >= 2 /\ st.activeIndex = 0
  /\ cfg.allowKeyboardControl /\ cfg.allowClose

\* ------------------------------------------------ closing switch (C21)
\* C21: with allowClose false, neither Escape nor a click on the scrim
\* calls a handler or a hook or changes anything; with allowClose true a
\* click on the scrim of an initialized driver emits close, which is
\* handleClose when one handler set is registered, and ends an idle tour
\* unless onCloseClick or onDestroyStarted returns false.
C21_AllowCloseGatesEscapeAndScrim ==
  \A akc \in BOOLEAN :
    LET off == WithSwitches(FALSE, akc)
        on == WithSwitches(TRUE, akc)
    IN \A o \in CloseOracles :
         LET click == handleOverlayClick(on, o) IN
         /\ off.st = st /\ on.st = st
         /\ DispatchKeydown(off, "Escape", o) = off
         /\ handleOverlayClick(off, o) = off
         /\ ~st.isInitialized => click = on
         /\ st.isInitialized =>
              /\ SameRun(click, Emit(on, "close", o))
              /\ click.err = "none"
              /\ on.dom.emitterN = 1 =>
                   SameRun(click, [handleClose(on, o) EXCEPT !.err = "none"])
              /\ (Idle /\ o.close # "false" /\ o.destroy # "false") =>
                   (click.st = initialState /\ ~click.dom.overlayEl)

\* an idle tour showing its scrim with the click handler registered
C21_Witness ==
  /\ Idle /\ st.activeStep # Undefined
  /\ dom.overlayEl /\ dom.clickHandler /\ dom.emitterN = 1
  /\ cfg.allowClose

\* ------------------------------------------------ stacking layers (C22)
\* the highest numeric z-index of a chain, Auto if it has none
RECURSIVE HighestZ(_)
HighestZ(chain) ==
  IF chain = <<>> THEN Auto
  ELSE LET rest == HighestZ(Tail(chain))
       IN IF Head(chain) > rest THEN Head(chain) ELSE rest

\* C22: overlayZ < popoverZ and both are above the highest z-index among
\* the ancestors of the configured target.
C22_LayersAboveEveryAncestor ==
  geo.kind = "layers" =>
    /\ geo.overlayZ < geo.popoverZ
    /\ geo.overlayZ > HighestZ(geo.chain)
    /\ geo.popoverZ > HighestZ(geo.chain)

\* ------------------------------------------------ scrim cutout (C23, C24)
\* C23: the cutout drawn lies inside the viewport, also for a highlight
\* rectangle that extends past it.
C23_CutoutInsideViewport ==
  geo.kind = "cutout" =>
    /\ 0 <= geo.drawn.x /\ 0 <= geo.drawn.y
    /\ geo.drawn.x + geo.drawn.width <= geo.viewport.w
    /\ geo.drawn.y + geo.drawn.height <= geo.viewport.h

\* C24: the radius r of the drawn corners satisfies 2r <= min(width,
\* height) of the drawn rectangle, whatever stageRadius is.
C24_RadiusAtMostHalfTheRectangle ==
  geo.kind = "cutout" =>
    /\ geo.drawn.twoR <= geo.drawn.width
    /\ geo.drawn.twoR <= geo.drawn.height
    /\ geo.drawn.twoR <= 2 * geo.stageRadius
    /\ geo.drawn.rounded <=> geo.drawn.twoR > 0

\* a stageRadius larger than the rectangle, cut down to half its height
C24_Witness ==
  /\ geo.kind = "cutout"
  /\ geo.stageRadius > geo.drawn.width /\ geo.stageRadius > geo.drawn.height
  /\ geo.drawn.height > 0 /\ geo.drawn.width > geo.drawn.height
  /\ geo.drawn.twoR = geo.drawn.height /\ geo.drawn.rounded

\* --------------------------------------------- popover placement (C25, C26)
SpaceOn(side) ==
  CASE side = "bottom" -> geo.viewport.h - geo.targetRect.bottom
    [] side = "top" -> geo.targetRect.top
    [] side = "right" -> geo.viewport.w - geo.targetRect.right
    [] side = "left" -> geo.targetRect.left
Fits(side) ==
  SpaceOn(side) >=
    (IF side \in {"top", "bottom"} THEN geo.popoverRect.height
                                   ELSE geo.popoverRect.width) + sideBuffer
AutoSide == geo.kind = "popover" /\ geo.popover.side = "none"
Rank(side) == CHOOSE i \in 1..4 : Sides[i] = side

\* C25 as stated: first fit in the order bottom, top, right, left; if no
\* side fits, the side whose space is strictly the largest.
C25_FirstFitElseStrictlyLargest ==
  AutoSide =>
    IF \E s \in SideInputs \ {"none"} : Fits(s)
    THEN /\ Fits(geo.placed.side)
         /\ \A s \in SideInputs \ {"none"} :
              Rank(s) < Rank(geo.placed.side) => ~Fits(s)
    ELSE \A s \in SideInputs \ {"none", geo.placed.side} :
           SpaceOn(s) < SpaceOn(geo.placed.side)

\* C25 amended: if no side fits, the chosen side has the largest space and
\* is the first such side in the order bottom, top, right, left.
C25_FirstFitElseFirstLargest ==
  AutoSide =>
    IF \E s \in SideInputs \ {"none"} : Fits(s)
    THEN /\ Fits(geo.placed.side)
         /\ \A s \in SideInputs \ {"none"} :
              Rank(s) < Rank(geo.placed.side) => ~Fits(s)
    ELSE \A s \in SideInputs \ {"none", geo.placed.side} :
           \/ SpaceOn(s) < SpaceOn(geo.placed.side)
           \/ /\ SpaceOn(s) = SpaceOn(geo.placed.side)
              /\ Rank(geo.placed.side) < Rank(s)

\* no side fits and two sides tie for the largest space
C25_Witness ==
  /\ AutoSide
  /\ \A s \in SideInputs \ {"none"} : ~Fits(s)
  /\ geo.placed.side = "top"
  /\ SpaceOn("top") = SpaceOn("right")
  /\ SpaceOn("bottom") < SpaceOn("top")

\* C26 as stated: the final position lies in [margin, extent - panel -
\* margin] on both axes, for every target, panel and viewport.
C26_PositionWithinMargins ==
  geo.kind = "popover" =>
    /\ margin <= geo.placed.top
    /\ geo.placed.top <= geo.viewport.h - geo.popoverRect.height - margin
    /\ margin <= geo.placed.left
    /\ geo.placed.left <= geo.viewport.w - geo.popoverRect.width - margin

\* C26 amended: on each axis where the panel and both margins fit in the
\* viewport the position lies in [margin, extent - panel - margin];
\* on an axis where they do not fit the position is the margin.
C26_PositionWithinMarginsWhenPanelFits ==
  geo.kind = "popover" =>
    /\ margin <= geo.placed.top
    /\ margin <= geo.placed.left
    /\ IF geo.popoverRect.height + 2 * margin <= geo.viewport.h
       THEN geo.placed.top <= geo.viewport.h - geo.popoverRect.height - margin
       ELSE geo.placed.top = margin
    /\ IF geo.popoverRect.width + 2 * margin <= geo.viewport.w
       THEN geo.placed.left <= geo.viewport.w - geo.popoverRect.width - margin
       ELSE geo.placed.left = margin

\* an ideal position below the viewport, pulled back to the lower edge
C26_Witness ==
  /\ geo.kind = "popover"
  /\ geo.popoverRect.height + 2 * margin < geo.viewport.h
  /\ geo.placed.ideal.top > geo.viewport.h
  /\ geo.placed.top = geo.viewport.h - geo.popoverRect.height - margin
  /\ geo.placed.ideal.left < 0
  /\ geo.placed.left = margin

\* ------------------------------------------------ init idempotence (C27)
\* the listeners, bus handlers and focus record of the current state are
\* those of m
SameRegistrations(m) ==
  /\ m.dom.attached = dom.attached
  /\ m.dom.emitterN = dom.emitterN
  /\ m.dom.clickHandler = dom.clickHandler
  /\ m.st.focusedBeforeActivation = st.focusedBeforeActivation

\* C27: on an instance that has been initialized and not destroyed (its
\* event managers exist), drive(), moveTo() and highlight() register no
\* further listener or bus handler and keep the element recorded for focus
\* restoration, whatever calls came before.
C27_InitRegistersOnce ==
  dom.owned =>
    /\ \A i \in Indexes :
         /\ SameRegistrations(apiDrive(Cur, i))
         /\ SameRegistrations(apiMoveTo(Cur, i))
    /\ \A step \in HighlightInputs : SameRegistrations(apiHighlight(Cur, step))

\* ----------------------------------------------------- single nodes (C28)
\* C28: at every point an instance has at most one scrim node, one popover
\* node and one placeholder anchor in the document, each the one its
\* manager refers to.
C28_AtMostOneNodeOfEachKind ==
  /\ dom.nodes.overlay = (IF dom.overlayEl THEN 1 ELSE 0)
  /\ dom.nodes.popover = (IF dom.popoverEl THEN 1 ELSE 0)
  /\ dom.nodes.dummy = (IF dom.dummyElement THEN 1 ELSE 0)

\* the popover rendered for a later step of a tour that has used the
\* placeholder anchor: all three nodes are in the document, once each
C28_Witness ==
  /\ dom.nodes = [overlay |-> 1, popover |-> 1, dummy |-> 1]
  /\ st.activeIndex >= 1
  /\ dom.currentStep = st.activeStep
  /\ st.previousStep # Undefined

\* ----------------------------------------------- transition order (C29)
\* what each hook call of a run was given and observed
Events(m) ==
  [ k \in 1..Len(m.fired) |->
      << m.fired[k].hook, m.fired[k].step, m.fired[k].el, m.fired[k].idx,
         m.fired[k].busy >> ]
IfHooked(step, name, event) ==
  IF HookLevel(step, name, cfg) # "none" THEN << event >> ELSE <<>>

\* C29: a transition from the active step i to step j calls onDeselected
\* for step i, then onHighlightStarted for step j, both observing
\* activeIndex = i; then activeIndex, activeStep, activeElement and the
\* previous* fields are updated in the same call, nothing is rendered yet
\* and one settle timer for step j is pending.  When a settle timer expires
\* on an initialized instance the popover of its step is rendered, then
\* onHighlighted is called once for that step, seeing the rendered popover
\* and the transition flag as it was, and then the flag is cleared.
C29_TransitionOrder ==
  /\ (st.isInitialized /\ st.activeStep # Undefined /\ ~st.transitionInProgress) =>
       \A j \in 0..(N - 1) :
         \E m \in { apiMoveTo(Cur, j) } :
           LET i == st.activeIndex
               stepJ == cfg.steps[j + 1]
               element == resolveElement(stepJ)
               target == HighlightTarget(element)
           IN /\ m.err = "none"
              /\ Events(m) =
                   IfHooked(st.activeStep, "onDeselected",
                            << "onDeselected", st.activeStep, st.activeElement,
                               i, TRUE >>)
                   \o IfHooked(stepJ, "onHighlightStarted",
                               << "onHighlightStarted", stepJ, element, i, TRUE >>)
              /\ m.st.activeIndex = j /\ m.st.activeStep = stepJ
              /\ m.st.activeElement = target
              /\ m.st.previousStep = st.activeStep
              /\ m.st.previousElement = st.activeElement
              /\ m.st.transitionInProgress
              /\ m.dom.currentStep = dom.currentStep
              /\ m.dom.popoverEl = dom.popoverEl
              /\ m.timers = Append(timers, [ kind |-> "step", step |-> stepJ,
                                             el |-> target,
                                             delay |-> SettleDelay(cfg) ])
  /\ \A k \in StepTimers(timers) :
       \E done \in { FireTimer(Cur, k) } :
         LET t == timers[k] IN
         /\ done.timers = Without(timers, k)
         /\ IF st.isInitialized
            THEN /\ Events(done) =
                      IfHooked(t.step, "onHighlighted",
                               << "onHighlighted", t.step, t.el, st.activeIndex,
                                  st.transitionInProgress >>)
                 /\ StepHasPopover(t.step) =>
                      /\ done.dom.popoverEl /\ done.dom.currentStep = t.step
                      /\ \A e \in 1..Len(done.fired) :
                           /\ done.fired[e].dom.popoverEl
                           /\ done.fired[e].dom.currentStep = t.step
                 /\ done.st = [st EXCEPT !.transitionInProgress = FALSE]
            ELSE done.fired = <<>> /\ done.st = st /\ done.dom = dom

\* a finished transition between two different steps with every hook set
C29_Witness ==
  /\ st.isInitialized /\ ~st.transitionInProgress /\ timers = <<>>
  /\ st.activeIndex >= 1
  /\ st.previousStep # Undefined /\ st.previousStep # st.activeStep
  /\ dom.currentStep = st.activeStep
  /\ GlobalHooks \subseteq cfg.hooks

C31_DestroyDetachesEveryListener ==
  \A o \in DestroyOracles :
    \E m \in { apiDestroy(Cur, o) } :
      /\ m.dom.attached = 0
      /\ ~m.dom.owned
      /\ ~m.dom.clickHandler
      /\ m.dom.emitterN = 0

\* ------------------------------------------------ deferred cutout (C32)
\* C32: highlight() does not recompute the scrim cutout in the same call,
\* and one animation frame later the cutout is still not recomputed (it
\* waits for a second frame).
C32_CutoutWaitsTwoFrames ==
  \A step \in HighlightInputs \ {Undefined} :
    \E m \in { apiHighlight(Cur, step) } :
      /\ m.dom.raf
      /\ m.dom.svgHole = (IF dom.overlayEl THEN dom.svgHole ELSE Undefined)
      /\ RafCallback(m).dom.svgHole = m.dom.svgHole

\* ------------------------------------------- step and global hooks (C33)
\* how often a run called hook `name` at the given level
Calls(m, name, level) ==
  Cardinality({ k \in 1..Len(m.fired) :
                  m.fired[k].hook = name /\ m.fired[k].level = level })

\* hook `name` was looked up once for `step`: the step's own hook was called
\* if the step defines it, else the global one if the configuration does
OneLookup(m, name, step) ==
  /\ Calls(m, name, "step") = (IF name \in StepHooks(step) THEN 1 ELSE 0)
  /\ Calls(m, name, "global") =
       (IF name \notin StepHooks(step) /\ name \in cfg.hooks THEN 1 ELSE 0)

\* C33: for onDeselected, onHighlightStarted, onHighlighted, onNextClick,
\* onPrevClick and onCloseClick, a step that defines the hook gets its own
\* hook called and the global one is not called; a step that does not
\* define it gets the global one when that is defined.
C33_StepHookOverridesGlobal ==
  /\ (Idle /\ st.activeStep # Undefined) =>
       /\ \A o \in NextOracles :
            OneLookup(handleNext(Cur, o), "onNextClick", st.activeStep)
       /\ \A o \in PrevOracles :
            OneLookup(handlePrev(Cur, o), "onPrevClick", st.activeStep)
       /\ \A o \in CloseOracles :
            OneLookup(handleClose(Cur, o), "onCloseClick", st.activeStep)
       /\ \A j \in 0..(N - 1) :
            \E m \in { apiMoveTo(Cur, j) } :
              /\ OneLookup(m, "onDeselected", st.activeStep)
              /\ OneLookup(m, "onHighlightStarted", cfg.steps[j + 1])
  /\ st.isInitialized =>
       \A k \in StepTimers(timers) :
         OneLookup(FireTimer(Cur, k), "onHighlighted", timers[k].step)

\* a step with its own hooks is shown while the global hooks are set too
C33_Witness ==
  /\ Idle /\ timers = <<>>
  /\ st.activeStep # Undefined
  /\ StepHooks(st.activeStep) # {}
  /\ StepHooks(st.activeStep) \subseteq cfg.hooks
  /\ dom.currentStep = st.activeStep

\* ------------------------------------------------- index invariant (C34)
\* C34: in every reachable state a defined activeIndex lies within the
\* current step list and activeStep is the step at that position.
C34_ActiveIndexWithinStepList ==
  st.activeIndex # NoIndex =>
    /\ 0 <= st.activeIndex /\ st.activeIndex < N
    /\ st.activeStep = cfg.steps[st.activeIndex + 1]

\* ------------------------------------------- inactive means empty (C35)
CallsOf(hook) ==
  { [NoCalls EXCEPT ![hook] = c] : c \in HookCalls }

InactiveIsEmpty(m) ==
  ~isActive(m) =>
    /\ m.st.activeIndex = NoIndex
    /\ m.st.activeStep = Undefined
    /\ m.st.activeElement = Undefined
    /\ ~m.st.transitionInProgress

\* C35: whenever isActive() is false, activeIndex, activeStep and
\* activeElement are undefined and transitionInProgress is false, also
\* after a transition whose hooks called a method of the driver handle.
C35_InactiveReportsNoStep ==
  /\ InactiveIsEmpty(Cur)
  /\ \A j \in Indexes :
       \A calls \in CallsOf("onDeselected") \cup CallsOf("onHighlightStarted") :
         InactiveIsEmpty(apiMoveToCalling(Cur, j, calls))
  /\ \A k \in 1..Len(timers) :
       \A calls \in CallsOf("onHighlighted") :
         InactiveIsEmpty(FireTimerCalling(Cur, k, calls))

\* -------------------------------------------- inactive means no DOM (C36)
\* C36: whenever isActive() is false the instance has no scrim, popover or
\* placeholder node in the document and the page carries no scroll-lock
\* marker.
C36_InactiveHasNoNodes ==
  ~isActive(Cur) =>
    /\ dom.nodes = [overlay |-> 0, popover |-> 0, dummy |-> 0]
    /\ ~dom.overlayEl /\ ~dom.popoverEl /\ ~dom.dummyElement
    /\ ~dom.bodyActive

\* --------------------------------------- navigation from inside hooks (C37)
\* C37: moveNext(), movePrevious(), moveTo() or drive() called on the driver
\* handle from inside onDeselected or onHighlightStarted of a transition, or
\* from inside the onHighlighted of its settle timer, is suppressed: the
\* run ends exactly as it does when the hook makes no call.
C37_NavigationInsideHookIsSuppressed ==
  \A c \in NavigationCalls :
    /\ \A j \in Indexes :
         \A h \in {"onDeselected", "onHighlightStarted"} :
           apiMoveToCalling(Cur, j, [NoCalls EXCEPT ![h] = c]) = apiMoveTo(Cur, j)
    /\ st.isInitialized =>
         \A k \in StepTimers(timers) :
           FireTimerCalling(Cur, k, [NoCalls EXCEPT !.onHighlighted = c]).st
             = FireTimer(Cur, k).st

\* ------------------------------------------------------ failed start (C38)
\* C38: a drive(i) or moveTo(i) that raises NoSteps or InvalidStepIndex
\* leaves TourState, DOM, listeners, timers and configuration as they were;
\* an inactive instance stays inactive.
C38_FailedDriveChangesNothing ==
  \A i \in Indexes :
    \A m \in { apiDrive(Cur, i), apiMoveTo(Cur, i) } :
      m.err \in {"NO_STEPS", "INVALID_STEP_INDEX"} =>
        /\ Untouched(m)
        /\ m.fired = <<>>
        /\ isActive(m) = isActive(Cur)

\* ------------------------------------------- popover of the active step (C39)
\* the pending timer that expires first when all were set at about the same
\* time: the shortest delay, the oldest among equal delays
Due(q) ==
  CHOOSE k \in 1..Len(q) :
    \A j \in 1..Len(q) :
      q[k].delay < q[j].delay \/ (q[k].delay = q[j].delay /\ k <= j)

RECURSIVE SettleDue(_)
SettleDue(m) ==
  IF m.timers = <<>> THEN m ELSE SettleDue(FireTimer(m, Due(m.timers)))

PopoverOfActiveStep(m) ==
  (isActive(m) /\ m.timers = <<>> /\ m.dom.popoverEl) =>
    m.dom.currentStep = m.st.activeStep

\* C39: whenever the tour is active and no deferred render is pending, the
\* popover last rendered is that of the active step; also when a
\* highlight() follows a setConfig({animate}) and the timers then expire.
C39_PopoverBelongsToActiveStep ==
  /\ PopoverOfActiveStep(Cur)
  /\ \A flag \in BOOLEAN :
       \A step \in HighlightInputs \ {Undefined} :
         PopoverOfActiveStep(
           SettleDue(apiHighlight(
             configSetConfig(Cur, [Partial("animate") EXCEPT !.flag = flag]),
             step)))

\* ------------------------------------------------ destroy is idempotent (C40)
DestroyIsSilent(m) ==
  ~isActive(m) =>
    \A o \in DestroyOracles :
      \E d \in { apiDestroy([m EXCEPT !.fired = <<>>], o) } :
        d.fired = <<>> /\ d.st = initialState

\* C40: destroy() on an inactive instance fires no hook and leaves TourState
\* at its empty value, in every state the driver reaches, the states left by
\* a destroy() and by a transition whose hook called back into the driver
\* included.
C40_DestroyIsIdempotent ==
  /\ DestroyIsSilent(Cur)
  /\ \A o \in DestroyOracles : DestroyIsSilent(apiDestroy(Cur, o))
  /\ \A j \in Indexes :
       \A calls \in CallsOf("onDeselected") \cup CallsOf("onHighlightStarted") :
         DestroyIsSilent(apiMoveToCalling(Cur, j, calls))

====
